---------------------------- MODULE Spec2Model ----------------------------
(* A model of the MyWavinHome portal client                                *)
(* (custom_components/my_wavin_home/api.py): the session token, the        *)
(* request helpers with their re-authentication on 401, the paginated room *)
(* listing, the per-room details, the outside temperature and the          *)
(* button-index emulation that changes a room's target temperature.        *)
(*                                                                         *)
(* Python strings are sequences of symbols.  A symbol is one character,    *)
(* or a literal the code searches for as a whole ("PHPSESSID=", the jQuery *)
(* selector opening "$('#"), or a run of characters no operation splits    *)
(* (a number such as "21.5", an identifier such as "b6").  One step of the *)
(* model is one HTTP exchange and everything the handler does with its     *)
(* response up to the next request.                                        *)
EXTENDS Integers, Sequences, FiniteSets, TLC

VARIABLES
    session_id,     \* HVACApiClient.session_id
    http_session,   \* HVACApiClient._session: "none" or "open"
    pc,             \* position of the running call; "idle": none, "done": it ended
    cont,           \* where the call continues after a successful login
    op,             \* the public operation running (or last run) and its arguments
    portal,         \* what the portal serves during the call
    page_number,    \* _fetch_and_parse_rooms: page being fetched
    frames,         \* rooms parsed by the enclosing _fetch_and_parse_rooms calls
    listed,         \* the value _fetch_and_parse_rooms(1) returned, or how it failed
    rooms,          \* get_room_temperatures: the room map being completed
    idx,            \* get_room_temperatures: position of the details loop
    n401,           \* 401 answers received by the running call
    log,            \* the HTTP exchanges of the running (or last) call, in order
    response,       \* authenticate called directly: the login response it got
    soup,           \* set_room_target_temperature: the settings page fetched
    outcome         \* how the last call ended

vars == <<session_id, http_session, pc, cont, op, portal, page_number, frames,
          listed, rooms, idx, n401, log, response, soup, outcome>>

-----------------------------------------------------------------------------
(* Bounds *)

MaxHdrLen == 3      \* symbols in a Set-Cookie header
MaxPages == 3       \* pages of a room listing
Max401 == 1         \* 401 answers to the data requests of one get_room_temperatures
MaxRetries == 2     \* 401 answers to the data requests of one call of another operation
MaxButtons == 10    \* selector buttons on a settings page

-----------------------------------------------------------------------------
(* Python values *)

\* Python's None; no string of the model is this sequence.
None == <<"None">>

\* `not x` for an optional string: None and "" are falsy.
Falsy(x) == x = None \/ x = <<>>

SeqsUpTo(S, n) == UNION {[1..k -> S] : k \in 0..n}

Last(s) == s[Len(s)]

\* s[:-n]
DropLast(s, n) == IF Len(s) <= n THEN <<>> ELSE SubSeq(s, 1, Len(s) - n)

\* s.endswith(t)
EndsWith(s, t) ==
    /\ Len(s) >= Len(t)
    /\ SubSeq(s, Len(s) - Len(t) + 1, Len(s)) = t

\* s.find(c, from): the least position >= from holding c, 0 when there is none
\* (positions count from 1, Python's -1 is 0 here).
Find(s, c, from) ==
    IF \E i \in from..Len(s) : s[i] = c
    THEN CHOOSE i \in from..Len(s) :
            /\ s[i] = c
            /\ \A j \in from..(i - 1) : s[j] # c
    ELSE 0

RECURSIVE LStrip(_)
LStrip(s) == IF s # <<>> /\ Head(s) = " " THEN LStrip(Tail(s)) ELSE s

RECURSIVE RStrip(_)
RStrip(s) == IF s # <<>> /\ Last(s) = " " THEN RStrip(DropLast(s, 1)) ELSE s

\* s.strip()
Strip(s) == RStrip(LStrip(s))

-----------------------------------------------------------------------------
(* authenticate: from the login response to a token *)

PHPSESSID == "PHPSESSID="

\* Lines 149-154: the token the Set-Cookie header holds, "" when it names none.
HeaderToken(set_cookie) ==
    LET at == Find(set_cookie, PHPSESSID, 1) IN
    IF at = 0 THEN <<>>
    ELSE LET start == at + 1
              semi == Find(set_cookie, ";", start)
              end == IF semi = 0 THEN Len(set_cookie) ELSE semi - 1
         IN Strip(SubSeq(set_cookie, start, end))

\* Lines 157-161: the value of the first PHPSESSID cookie of the jar.
JarToken(jar) ==
    IF \E i \in 1..Len(jar) : jar[i].key = "PHPSESSID"
    THEN jar[CHOOSE i \in 1..Len(jar) :
                /\ jar[i].key = "PHPSESSID"
                /\ \A j \in 1..(i - 1) : jar[j].key # "PHPSESSID"].value
    ELSE None

\* A variant that lets the cookie jar win over the header.
ExtractSessionIdJarFirst(resp) ==
    IF ~Falsy(JarToken(resp.jar)) THEN JarToken(resp.jar)
    ELSE IF Find(resp.set_cookie, PHPSESSID, 1) # 0 THEN HeaderToken(resp.set_cookie)
    ELSE JarToken(resp.jar)

\* Lines 145-161: session_id after the header and the jar were looked at.
\* The header starts from None (line 146); the jar is read only when the
\* header left a falsy value.
ExtractSessionId(resp) ==
    LET fromHeader == IF Find(resp.set_cookie, PHPSESSID, 1) # 0
                      THEN HeaderToken(resp.set_cookie)
                      ELSE None
    IN IF ~Falsy(fromHeader) THEN fromHeader
       ELSE IF JarToken(resp.jar) # None THEN JarToken(resp.jar)
       ELSE fromHeader

\* A variant of authenticate that clears the stored token whenever it fails.
AuthResultClearing(resp, old) ==
    IF resp.status = "200" /\ ~Falsy(ExtractSessionId(resp))
    THEN [kind |-> "return", value |-> ExtractSessionId(resp),
          sid |-> ExtractSessionId(resp)]
    ELSE [kind |-> IF resp.status \in {"401", "200"} THEN "AuthenticationError"
                   ELSE "ConnectionError",
          value |-> None, sid |-> None]

\* authenticate (lines 120-175) as a function of the login response and the
\* token held before: how it ends, what it returns, and session_id afterwards.
AuthResult(resp, old) ==
    CASE resp.status \in {"timeout", "clienterror"} ->
            [kind |-> "ConnectionError", value |-> None, sid |-> old]
      [] resp.status = "401" ->
            [kind |-> "AuthenticationError", value |-> None, sid |-> old]
      [] resp.status # "200" ->
            [kind |-> "ConnectionError", value |-> None, sid |-> old]
      [] OTHER ->
            LET sid == ExtractSessionId(resp) IN
            IF Falsy(sid)
            THEN [kind |-> "AuthenticationError", value |-> None, sid |-> sid]
            ELSE [kind |-> "return", value |-> sid, sid |-> sid]

-----------------------------------------------------------------------------
(* The portal's answers *)

\* The outcome of one HTTP exchange: a status, or no response at all
\* (asyncio.TimeoutError, aiohttp.ClientError).  "500" stands for every
\* status other than 200 and 401.
Statuses == {"200", "401", "500", "timeout", "clienterror"}

HdrAlphabet == {PHPSESSID, ";", " ", "a"}

Headers == SeqsUpTo(HdrAlphabet, MaxHdrLen)

Cookie(k, v) == [key |-> k, value |-> v]

\* Contents of the shared session's cookie jar when the login response arrives.
Jars == { <<>>,
          <<Cookie("PHPSESSID", <<"c">>)>>,
          <<Cookie("lang", <<"en">>), Cookie("PHPSESSID", <<"c">>)>>,
          <<Cookie("PHPSESSID", <<>>)>>,
          <<Cookie("PHPSESSID", <<>>), Cookie("PHPSESSID", <<"c">>)>>,
          <<Cookie("PHPSESSID", <<"c">>), Cookie("PHPSESSID", <<"d">>)>>,
          <<Cookie("lang", <<"en">>)>> }

LoginResponses ==
    { [status |-> "200", set_cookie |-> h, jar |-> j] : h \in Headers, j \in Jars }
    \cup { [status |-> s, set_cookie |-> <<>>, jar |-> <<>>] : s \in Statuses \ {"200"} }

\* The login responses met inside the other operations: every failure, and
\* every way of getting or not getting a token.
SessionLogins ==
    { r \in LoginResponses :
        \/ r.status # "200"
        \/ /\ r.set_cookie \in { <<>>, <<PHPSESSID>>, <<PHPSESSID, "a">> }
           /\ r.jar \in { <<>>, <<Cookie("PHPSESSID", <<"c">>)>> } }

NoResponse == [status |-> "none", set_cookie |-> <<>>, jar |-> <<>>]

-----------------------------------------------------------------------------
(* Python dicts: insertion-ordered sequences of key/value pairs *)

Keys(d) == {d[i].k : i \in 1..Len(d)}

\* d[k] = v: an existing key keeps its position and takes the new value.
DictSet(d, k, v) ==
    IF k \in Keys(d)
    THEN [i \in 1..Len(d) |-> IF d[i].k = k THEN [k |-> k, v |-> v] ELSE d[i]]
    ELSE Append(d, [k |-> k, v |-> v])

\* A variant of update that keeps the value of a key already present.
RECURSIVE DictUpdateKeepEarlier(_, _)
DictUpdateKeepEarlier(d, e) ==
    IF e = <<>> THEN d
    ELSE DictUpdateKeepEarlier(
            IF Head(e).k \in Keys(d) THEN d ELSE DictSet(d, Head(e).k, Head(e).v),
            Tail(e))

\* d.update(e)
RECURSIVE DictUpdate(_, _)
DictUpdate(d, e) ==
    IF e = <<>> THEN d
    ELSE DictUpdate(DictSet(d, Head(e).k, Head(e).v), Tail(e))

-----------------------------------------------------------------------------
(* _fetch_and_parse_rooms: one listing page *)

DegC == <<"deg", "C">>           \* the two-character degree suffix
RhPct == <<" ", "r", "h", "%">>  \* the four-character humidity suffix

\* Line 254: the part of the href after its last "/", the href without one.
RECURSIVE AfterLastSlash(_)
AfterLastSlash(href) ==
    IF Find(href, "/", 1) = 0 THEN href
    ELSE AfterLastSlash(SubSeq(href, Find(href, "/", 1) + 1, Len(href)))

\* Lines 255-260: the loop over the .thermHeader2 texts, from the values held
\* so far; a later text of the same kind replaces an earlier one.
RECURSIVE ScanThermData(_, _)
ScanThermData(data, acc) ==
    IF data = <<>> THEN acc
    ELSE LET text == Head(data) IN
         ScanThermData(Tail(data),
            IF EndsWith(text, RhPct)
            THEN [acc EXCEPT !.humidity = DropLast(text, 4)]
            ELSE IF EndsWith(text, DegC)
            THEN [acc EXCEPT !.temperature = DropLast(text, 2)]
            ELSE acc)

\* Lines 249-263 for one .listview block: the room's identifier and reading,
\* or the exception the block raises (select_one(...) gave None, or one of
\* temperature and humidity is still None when .strip() is called on it).
ParseRoom(room) ==
    IF ~room.thermoInput.present \/ ~room.link.present
    THEN [ok |-> FALSE, k |-> <<>>, v |-> <<>>]
    ELSE LET found == ScanThermData(room.data,
                         [temperature |-> None, humidity |-> None])
         IN IF found.temperature = None \/ found.humidity = None
            THEN [ok |-> FALSE, k |-> <<>>, v |-> <<>>]
            ELSE [ok |-> TRUE,
                  k |-> AfterLastSlash(room.link.href),
                  v |-> ("name" :> room.thermoInput.value)
                        @@ ("temperature" :> Strip(found.temperature))
                        @@ ("humidity" :> Strip(found.humidity))]

\* Lines 247-263: the rooms of one page, in order; the first block that
\* raises ends the parse.
RECURSIVE ParseRooms(_, _)
ParseRooms(items, acc) ==
    IF items = <<>> THEN [ok |-> TRUE, rooms |-> acc]
    ELSE LET r == ParseRoom(Head(items)) IN
         IF ~r.ok THEN [ok |-> FALSE, rooms |-> <<>>]
         ELSE ParseRooms(Tail(items), DictSet(acc, r.k, r.v))

\* Line 266: soup.select_one('.next:not(.hidden)')
HasNext(page) == page.next = "visible"

\* _fetch_and_parse_rooms(n), lines 243-273, when every request is answered
\* 200: the recursion as the code writes it.
RECURSIVE FetchAndParseRooms(_, _)
FetchAndParseRooms(pages, n) ==
    LET page == IF n \in 1..Len(pages) THEN pages[n]
                ELSE [items |-> <<>>, next |-> "absent"]
        parsed == ParseRooms(page.items, <<>>)
    IN IF ~parsed.ok THEN [kind |-> "ConnectionError", value |-> None]
       ELSE IF HasNext(page)
       THEN LET next_page_rooms == FetchAndParseRooms(pages, n + 1) IN
            IF next_page_rooms.kind # "return" THEN next_page_rooms
            ELSE [kind |-> "return",
                  value |-> DictUpdate(parsed.rooms, next_page_rooms.value)]
       ELSE [kind |-> "return", value |-> parsed.rooms]

\* Lines 268-270 on the way back up: every enclosing call updates its own
\* rooms with what the deeper call returned.
RECURSIVE Unwind(_, _)
Unwind(fs, deeper) ==
    IF fs = <<>> THEN deeper
    ELSE Unwind(DropLast(fs, 1), DictUpdate(Last(fs), deeper))

-----------------------------------------------------------------------------
(* The settings page: get_room_details and set_room_target_temperature *)

Markers == {"heat", "cool", "day", "night"}

FlagOf(m) == CASE m = "heat"  -> "is_heating_on"
               [] m = "cool"  -> "is_cooling_on"
               [] m = "day"   -> "is_day_mode_on"
               [] m = "night" -> "is_night_mode_on"

\* A dict as a function from the keys present.
EmptyDict == [x \in {} |-> TRUE]

RECURSIVE FlagsOf(_)
FlagsOf(ms) ==
    IF ms = {} THEN EmptyDict
    ELSE LET m == CHOOSE x \in ms : TRUE
         IN (FlagOf(m) :> TRUE) @@ FlagsOf(ms \ {m})

\* A variant that stores every flag, false for a marker that is absent.
RoomDetailsAllFlags(page) ==
    (IF page.myModeVal.present /\ page.myModeVal.text # <<>>
     THEN ("target_temperature" :> DropLast(page.myModeVal.text, 2))
     ELSE EmptyDict)
    @@ [f \in {FlagOf(m) : m \in Markers} |->
            \E m \in page.markers : FlagOf(m) = f]

\* get_room_details, lines 195-219, on a fetched page.
RoomDetails(page) ==
    (IF page.myModeVal.present /\ page.myModeVal.text # <<>>
     THEN ("target_temperature" :> DropLast(page.myModeVal.text, 2))
     ELSE EmptyDict)
    @@ FlagsOf({m \in Markers : m \in page.markers})

\* float() on the characters of a decimal number: the value in half degrees,
\* or failure (ValueError).  Digits are the symbols "0".."9"; a number is
\* a run of digits, optionally followed by "." and one digit, 0 or 5.
Digit == [c \in {"0", "1", "2", "3", "4", "5", "6", "7", "8", "9"} |->
            CASE c = "0" -> 0 [] c = "1" -> 1 [] c = "2" -> 2 [] c = "3" -> 3
              [] c = "4" -> 4 [] c = "5" -> 5 [] c = "6" -> 6 [] c = "7" -> 7
              [] c = "8" -> 8 [] c = "9" -> 9]

RECURSIVE DigitsValue(_)
DigitsValue(s) == IF s = <<>> THEN 0 ELSE 10 * DigitsValue(DropLast(s, 1)) + Digit[Last(s)]

AllDigits(s) == s # <<>> /\ \A i \in 1..Len(s) : s[i] \in DOMAIN Digit

ParseFloat(s) ==
    LET dot == Find(s, ".", 1) IN
    IF dot = 0
    THEN IF AllDigits(s) THEN [ok |-> TRUE, halves |-> 2 * DigitsValue(s)]
         ELSE [ok |-> FALSE, halves |-> 0]
    ELSE LET whole == SubSeq(s, 1, dot - 1)
             frac == SubSeq(s, dot + 1, Len(s))
         IN IF AllDigits(whole) /\ frac \in {<<"0">>, <<"5">>}
            THEN [ok |-> TRUE,
                  halves |-> 2 * DigitsValue(whole) + (IF frac = <<"5">> THEN 1 ELSE 0)]
            ELSE [ok |-> FALSE, halves |-> 0]

\* int(x) for x given in half degrees: rounds toward zero.
TruncHalves(h) == IF h >= 0 THEN h \div 2 ELSE -((-h) \div 2)

\* Line 306: re.search(r"\$\('#([a-zA-Z0-9]*)'\)", script): the first place
\* where "$('#" is followed by "')" directly (the empty identifier) or after
\* one alphanumeric run.
SelOpen == "$('#"
SelClose == "')"

IdTokens == <<"b0", "b1", "b2", "b3", "b4", "b5", "b6", "b7", "b8", "b9", "b10", "b11">>

Alnum == {IdTokens[i] : i \in 1..Len(IdTokens)} \cup {"zz"}

MatchAt(s, i) ==
    /\ s[i] = SelOpen
    /\ \/ i + 1 <= Len(s) /\ s[i + 1] = SelClose
       \/ i + 2 <= Len(s) /\ s[i + 1] \in Alnum /\ s[i + 2] = SelClose

SearchSelector(s) ==
    IF \E i \in 1..Len(s) : MatchAt(s, i)
    THEN LET i == CHOOSE x \in 1..Len(s) :
                    MatchAt(s, x) /\ \A y \in 1..(x - 1) : ~MatchAt(s, y)
         IN [matched |-> TRUE, group |-> IF s[i + 1] = SelClose THEN "" ELSE s[i + 1]]
    ELSE [matched |-> FALSE, group |-> ""]

\* Lines 324-331: the position (from 0) of the first button whose id is the
\* matched identifier, -1 for Python's None.
SelectorIndex(buttons, group) ==
    IF \E i \in 1..Len(buttons) : buttons[i].id = group
    THEN (CHOOSE i \in 1..Len(buttons) :
            /\ buttons[i].id = group
            /\ \A j \in 1..(i - 1) : buttons[j].id # group) - 1
    ELSE -1

\* A variant that rounds the difference down.
NewSelectorIndexFloor(current_index, temperature_difference) ==
    current_index - (temperature_difference \div 2)

\* A variant that moves the other way.
NewSelectorIndexUp(current_index, temperature_difference) ==
    current_index + TruncHalves(temperature_difference)

\* Line 336
NewSelectorIndex(current_index, temperature_difference) ==
    current_index - TruncHalves(temperature_difference)

\* js_content.split(","): the pieces between the commas.
RECURSIVE Split(_)
Split(s) ==
    LET c == Find(s, ",", 1) IN
    IF c = 0 THEN <<s>>
    ELSE <<SubSeq(s, 1, c - 1)>> \o Split(SubSeq(s, c + 1, Len(s)))

JsPrefix == "javascript:setTemperature"

\* A variant that accepts a handler with any number of parameters.
HandlerParamsAny(js_content) ==
    IF js_content = <<>> \/ Head(js_content) # JsPrefix
    THEN [ok |-> FALSE, params |-> <<>>]
    ELSE LET params == Split(SubSeq(js_content, Find(js_content, "(", 1) + 1,
                                    Find(js_content, ")", 1) - 1))
         IN [ok |-> Len(params) >= 2, params |-> params]

\* Lines 345-355: the parameters of the button's handler; ok is whether the
\* handler passes both checks.  js_content[a:b] with b = -1 (no ")") drops
\* the last character.
HandlerParams(js_content) ==
    IF js_content = <<>> \/ Head(js_content) # JsPrefix
    THEN [ok |-> FALSE, params |-> <<>>]
    ELSE LET params_start == Find(js_content, "(", 1) + 1
             close == Find(js_content, ")", 1)
             params_end == IF close = 0 THEN Len(js_content) - 1 ELSE close - 1
             params == Split(SubSeq(js_content, params_start, params_end))
         IN [ok |-> Len(params) = 3, params |-> params]

\* A variant that never takes the target as reached.
NeverAtTarget(temperature_difference) == FALSE

\* Line 296
AlreadyAtTarget(temperature_difference) == temperature_difference = 0

\* set_room_target_temperature, lines 292-366, on a fetched page: the
\* exception it raises, the reason it gives up, or the POST it makes.
SetTemperaturePlan(page, target) ==
    IF ~page.myModeVal.present
    THEN [kind |-> "AttributeError", why |-> "no #myModeVal", index |-> -1, value |-> <<>>]
    ELSE LET cur == ParseFloat(DropLast(page.myModeVal.text, 2)) IN
    IF ~cur.ok
    THEN [kind |-> "ValueError", why |-> "float()", index |-> -1, value |-> <<>>]
    ELSE LET temperature_difference == cur.halves - target IN
    IF AlreadyAtTarget(temperature_difference)
    THEN [kind |-> "return", why |-> "already at target", index |-> -1, value |-> <<>>]
    ELSE IF ~page.script.present \/ page.script.text = <<>>
    THEN [kind |-> "return", why |-> "no script", index |-> -1, value |-> <<>>]
    ELSE LET m == SearchSelector(page.script.text) IN
    IF ~m.matched
    THEN [kind |-> "return", why |-> "no match", index |-> -1, value |-> <<>>]
    ELSE IF page.buttons = <<>>
    THEN [kind |-> "return", why |-> "no buttons", index |-> -1, value |-> <<>>]
    ELSE LET current_index == SelectorIndex(page.buttons, m.group) IN
    IF current_index = -1
    THEN [kind |-> "return", why |-> "no current button", index |-> -1, value |-> <<>>]
    ELSE LET new_index == NewSelectorIndex(current_index, temperature_difference) IN
    IF new_index < 0 \/ new_index >= Len(page.buttons)
    THEN [kind |-> "return", why |-> "out of bounds", index |-> new_index, value |-> <<>>]
    ELSE LET h == HandlerParams(page.buttons[new_index + 1].onclick) IN
    IF ~h.ok
    THEN [kind |-> "return", why |-> "handler", index |-> new_index, value |-> <<>>]
    ELSE [kind |-> "post", why |-> "", index |-> new_index, value |-> h.params[2]]

\* get_outside_temperature, lines 227-231, on a fetched page:
\* text[:-2].replace(<degree C>, "").
RECURSIVE RemoveDegC(_)
RemoveDegC(s) ==
    IF Len(s) < 2 THEN s
    ELSE IF SubSeq(s, 1, 2) = DegC THEN RemoveDegC(SubSeq(s, 3, Len(s)))
    ELSE <<Head(s)>> \o RemoveDegC(Tail(s))

OutsideTemperature(page) ==
    IF page.outsideTemp.present /\ page.outsideTemp.text # <<>>
    THEN RemoveDegC(DropLast(page.outsideTemp.text, 2))
    ELSE None

-----------------------------------------------------------------------------
(* What the portal serves *)

Text(present, text) == [present |-> present, text |-> text]

Absent == Text(FALSE, <<>>)

ListRoom(name, href, data) ==
    [thermoInput |-> [present |-> TRUE, value |-> name],
     link |-> [present |-> TRUE, href |-> href],
     data |-> data]

Living == ListRoom(<<"Living">>, <<"settings", "/", "r1">>,
                   << <<"21.5">> \o DegC, <<"45">> \o RhPct >>)

\* the same room as Living, with another reading
LivingLater == ListRoom(<<"Living">>, <<"settings", "/", "r1">>,
                        << <<"19.0">> \o DegC, <<"50">> \o RhPct >>)

\* humidity before temperature, blanks around the values, a rooted href
Bath == ListRoom(<<"Bath">>, <<"/", "settings", "/", "r2">>,
                 << <<" ", "60", " ">> \o RhPct, <<" ", "22.0">> \o DegC >>)

\* an href without "/"
Hall == ListRoom(<<"Hall">>, <<"r3">>,
                 << <<"20.0">> \o DegC, <<"40">> \o RhPct >>)

\* a room that reports a temperature and no humidity
Attic == ListRoom(<<"Attic">>, <<"settings", "/", "r4">>,
                  << <<"18.5">> \o DegC >>)

\* a block without the details link
Broken == [thermoInput |-> [present |-> TRUE, value |-> <<"Shed">>],
           link |-> [present |-> FALSE, href |-> <<>>],
           data |-> << <<"17.0">> \o DegC, <<"70">> \o RhPct >>]

PageItems == { <<Living>>, <<Bath, Hall>>, <<LivingLater>>,
               <<Hall, Attic>>, <<Broken>> }

NextControls == {"visible", "hidden", "absent"}

\* A listing: every page but the last shows the next control.
Listings ==
    { [i \in 1..Len(items) |->
          [items |-> items[i],
           next |-> IF i < Len(items) THEN "visible" ELSE last]] :
      items \in SeqsUpTo(PageItems, MaxPages) \ {<<>>}, last \in NextControls }

EmptyPage == [items |-> <<>>, next |-> "absent"]

\* The page the portal serves for ?page=n: past the last page, an empty one.
PageAt(pages, n) == IF n \in 1..Len(pages) THEN pages[n] ELSE EmptyPage

Button(id, onclick) == [id |-> id, onclick |-> onclick]

ValueTokens == <<"v0", "v1", "v2", "v3", "v4", "v5", "v6", "v7", "v8", "v9", "v10", "v11">>

\* javascript:setTemperature(1,<value>,0);
GoodHandler(i) ==
    <<JsPrefix, "(", "1", ",", ValueTokens[i], ",", "0", ")", ";">>

\* Shapes of a handler: as expected, two parameters, four parameters,
\* another function, no closing parenthesis.
HandlerShapes == {"good", "two", "four", "other", "open"}

Handler(shape, i) ==
    CASE shape = "good"  -> GoodHandler(i)
      [] shape = "two"   -> <<JsPrefix, "(", "1", ",", ValueTokens[i], ")", ";">>
      [] shape = "four"  -> <<JsPrefix, "(", "1", ",", ValueTokens[i], ",", "0", ",", "0", ")", ";">>
      [] shape = "other" -> <<"javascript:other", "(", "1", ",", ValueTokens[i], ",", "0", ")", ";">>
      [] shape = "open"  -> <<JsPrefix, "(", "1", ",", ValueTokens[i], ",", "0", ";">>

\* n buttons with the identifiers b0, b1, ... and handlers of one shape.
Buttons(n, shape) == [i \in 1..n |-> Button(IdTokens[i], Handler(shape, i))]

ButtonCounts == {0, 3, MaxButtons}

\* The script block: missing, a tag without a string, a string without the
\* selector, a selector with an identifier that is not alphanumeric, the
\* empty selector, and the selector of no button, of the first button, of
\* the sixth and of the last.
CurrentButtons == {1, 6, MaxButtons}

Scripts ==
    { Absent, Text(TRUE, <<>>), Text(TRUE, <<"var x;">>),
      Text(TRUE, <<SelOpen, "b-1", SelClose>>),
      Text(TRUE, <<SelOpen, SelClose>>),
      Text(TRUE, <<SelOpen, "zz", SelClose>>) }
    \cup { Text(TRUE, <<"x", SelOpen, IdTokens[i], SelClose, ".addClass();">>) :
           i \in CurrentButtons }

\* The text of #myModeVal: missing, empty, not a number, and temperatures.
ModeTexts ==
    { Absent, Text(TRUE, <<>>), Text(TRUE, <<"-", "-">> \o DegC),
      Text(TRUE, <<"2", "1", ".", "0">> \o DegC),
      Text(TRUE, <<"2", "1", ".", "5">> \o DegC) }

SettingsPage(mode, markers, buttons, script) ==
    [myModeVal |-> mode, markers |-> markers, buttons |-> buttons, script |-> script]

NoPage == SettingsPage(Absent, {}, <<>>, Absent)

\* Settings pages as get_room_details reads them.
DetailPages == { SettingsPage(m, ms, <<>>, Absent) : m \in ModeTexts, ms \in SUBSET Markers }

\* The one served while all rooms are fetched.
ListingDetailPages ==
    { SettingsPage(Text(TRUE, <<"2", "1", ".", "0">> \o DegC), {"heat", "day"}, <<>>, Absent) }

NumericModeTexts == {m \in ModeTexts : m.present /\ Len(m.text) > 4}

SelectorScripts == {sc \in Scripts : sc.present /\ Len(sc.text) = 5}

\* Settings pages as set_room_target_temperature reads them: every text of
\* #myModeVal over a well-formed control; every script over every number of
\* buttons; every handler shape under every current button.
ControlPages ==
    { SettingsPage(m, {}, Buttons(MaxButtons, "good"), sc) :
         m \in ModeTexts, sc \in SelectorScripts }
    \cup { SettingsPage(m, {}, Buttons(n, "good"), sc) :
         m \in NumericModeTexts, n \in ButtonCounts, sc \in Scripts }
    \cup { SettingsPage(m, {}, Buttons(MaxButtons, sh), sc) :
         m \in NumericModeTexts, sh \in HandlerShapes, sc \in SelectorScripts }

\* Desired target temperatures, in half degrees
Targets == {40, 41, 42, 43, 44, 45, 46}

ControlsPages ==
    { [outsideTemp |-> t] :
        t \in { Absent, Text(TRUE, <<>>), Text(TRUE, <<"7", ".", "5">> \o DegC),
                Text(TRUE, <<"7">> \o DegC \o DegC) } }

NoControls == [outsideTemp |-> Absent]

RoomIds == { <<"r1">> }

Portal(pages, settings, controls) ==
    [pages |-> pages, settings |-> settings, controls |-> controls]

NoPortal == Portal(<<>>, NoPage, NoControls)

-----------------------------------------------------------------------------
(* The log of HTTP exchanges *)

Exchange(method, path, page, room, value, cookie, status, got) ==
    [method |-> method, path |-> path, page |-> page, room |-> room,
     value |-> value, cookie |-> cookie, status |-> status, got |-> got]

Get(path, page, room, cookie, status) ==
    Exchange("GET", path, page, room, <<>>, cookie, status, None)

\* The answers the portal may give to a data request: the 401 answers of one
\* call are bounded, more tightly for the call that makes many requests.
DataStatuses ==
    IF n401 < (IF op.name = "get_room_temperatures" THEN Max401 ELSE MaxRetries)
    THEN Statuses ELSE Statuses \ {"401"}

-----------------------------------------------------------------------------
(* The state machine *)

NoOutcome == [kind |-> "none", value |-> None]

Init ==
    /\ session_id = None
    /\ http_session = "none"
    /\ pc = "idle"
    /\ cont = "return"
    /\ op = [name |-> "none", room |-> <<>>, target |-> 0]
    /\ portal = NoPortal
    /\ page_number = 0
    /\ frames = <<>>
    /\ listed = NoOutcome
    /\ rooms = <<>>
    /\ idx = 0
    /\ n401 = 0
    /\ log = <<>>
    /\ response = NoResponse
    /\ soup = NoPage
    /\ outcome = NoOutcome

\* A public operation is entered: its locals are fresh, and it logs in first
\* when no token is held (`if not self.session_id: await self.authenticate()`).
Enter(o, p, first) ==
    /\ pc = "idle"
    /\ op' = o
    /\ portal' = p
    /\ pc' = IF Falsy(session_id) THEN "login" ELSE first
    /\ cont' = first
    /\ page_number' = IF first = "rooms" THEN 1 ELSE 0
    /\ frames' = <<>>
    /\ listed' = NoOutcome
    /\ rooms' = <<>>
    /\ idx' = 0
    /\ n401' = 0
    /\ log' = <<>>
    /\ response' = NoResponse
    /\ soup' = NoPage
    /\ outcome' = [kind |-> "running", value |-> None]
    /\ UNCHANGED <<session_id, http_session>>

\* The call ends: it returns v, or raises (kind is the exception's class).
Finish(kind, v) ==
    /\ pc' = "done"
    /\ outcome' = [kind |-> kind, value |-> v]

\* A variant in which the listing lets an exception leave as it is.
PropagatedAsIs(kind, inListing) == kind

\* Lines 271-273: inside _fetch_and_parse_rooms every exception leaves as
\* ConnectionError; elsewhere it leaves as it is.
Propagated(kind, inListing) == IF inListing THEN "ConnectionError" ELSE kind

\* An exception of class kind is raised at the current position.
Raise(kind, inListing) ==
    /\ Finish(Propagated(kind, inListing), None)
    /\ listed' = IF inListing THEN [kind |-> Propagated(kind, inListing), value |-> None]
                 ELSE listed

\* authenticate() called directly (config flow).
CallAuthenticate ==
    /\ pc = "idle"
    /\ op' = [name |-> "authenticate", room |-> <<>>, target |-> 0]
    /\ portal' = NoPortal
    /\ pc' = "login"
    /\ cont' = "return"
    /\ page_number' = 0
    /\ frames' = <<>>
    /\ listed' = NoOutcome
    /\ rooms' = <<>>
    /\ idx' = 0
    /\ n401' = 0
    /\ log' = <<>>
    /\ response' = NoResponse
    /\ soup' = NoPage
    /\ outcome' = [kind |-> "running", value |-> None]
    /\ UNCHANGED <<session_id, http_session>>

CallGetRoomTemperatures ==
    \E pages \in Listings, sp \in ListingDetailPages :
        Enter([name |-> "get_room_temperatures", room |-> <<>>, target |-> 0],
              Portal(pages, sp, NoControls), "rooms")

CallGetRoomDetails ==
    \E r \in RoomIds, sp \in DetailPages :
        Enter([name |-> "get_room_details", room |-> r, target |-> 0],
              Portal(<<>>, sp, NoControls), "details")

CallGetOutsideTemperature ==
    \E cp \in ControlsPages :
        Enter([name |-> "get_outside_temperature", room |-> <<>>, target |-> 0],
              Portal(<<>>, NoPage, cp), "controls")

CallSetRoomTargetTemperature ==
    \E r \in RoomIds, t \in Targets, sp \in ControlPages :
        Enter([name |-> "set_room_target_temperature", room |-> r, target |-> t],
              Portal(<<>>, sp, NoControls), "settings")

\* authenticate (lines 120-175): one POST of the login form.  pc = "login" is
\* the call from a public operation, pc = "relogin" the call from a request
\* helper that got 401 (lines 56 and 85); the request is then made again.
Authenticate ==
    /\ pc \in {"login", "relogin"}
    /\ \E resp \in (IF cont = "return" THEN LoginResponses ELSE SessionLogins) :
        LET r == AuthResult(resp, session_id) IN
        /\ response' = IF cont = "return" THEN resp ELSE NoResponse
        /\ session_id' = r.sid
        /\ log' = Append(log, Exchange("POST", "login", 0, <<>>, <<>>, None,
                                       resp.status, r.value))
        /\ IF r.kind = "return"
           THEN IF cont = "return"
                THEN Finish("return", r.value) /\ UNCHANGED listed
                ELSE pc' = cont /\ UNCHANGED <<outcome, listed>>
           ELSE Raise(r.kind, pc = "relogin" /\ cont = "rooms")
    /\ http_session' = "open"
    /\ UNCHANGED <<cont, op, portal, page_number, frames, rooms, idx, n401, soup>>

\* A variant that makes the request again without logging in.
ReauthenticateNoLogin(phase) ==
    /\ pc' = phase
    /\ cont' = phase
    /\ n401' = n401 + 1

\* A variant with a bounded retry: a second 401 ends the call.
ReauthenticateOnce(phase) ==
    /\ pc' = IF n401 = 0 THEN "relogin" ELSE "done"
    /\ cont' = phase
    /\ n401' = n401 + 1

\* _get_request / _post_request got 401 (lines 53-58, 82-87): log in again,
\* then make the request of this position again.
Reauthenticate(phase) ==
    /\ pc' = "relogin"
    /\ cont' = phase
    /\ n401' = n401 + 1

\* The position after a step: a public operation entered from here logs in
\* first when no token is held (lines 192-193).
Entered(phase) == IF Falsy(session_id) THEN "login" ELSE phase

\* _fetch_and_parse_rooms(page_number), lines 233-273: GET the page, parse its
\* rooms, and go on to the next page or return up through the enclosing calls.
FetchRoomsPage ==
    /\ pc = "rooms"
    /\ \E st \in DataStatuses :
        /\ log' = Append(log, Get("thermostats", page_number, <<>>, session_id, st))
        /\ CASE st = "401" ->
                /\ Reauthenticate("rooms")
                /\ UNCHANGED <<page_number, frames, listed, rooms, idx, outcome>>
             [] st \in {"500", "timeout", "clienterror"} ->
                /\ Raise("ConnectionError", TRUE)
                /\ UNCHANGED <<cont, page_number, frames, rooms, idx, n401>>
             [] OTHER ->
                LET page == PageAt(portal.pages, page_number)
                    parsed == ParseRooms(page.items, <<>>)
                IN IF ~parsed.ok
                   THEN /\ Raise("AttributeError", TRUE)
                        /\ UNCHANGED <<cont, page_number, frames, rooms, idx, n401>>
                   ELSE IF HasNext(page)
                   THEN /\ frames' = Append(frames, parsed.rooms)
                        /\ page_number' = page_number + 1
                        /\ UNCHANGED <<pc, cont, listed, rooms, idx, n401, outcome>>
                   ELSE LET result == Unwind(frames, parsed.rooms) IN
                        /\ listed' = [kind |-> "return", value |-> result]
                        /\ rooms' = result
                        /\ idx' = 1
                        /\ IF result = <<>>
                           THEN Finish("return", result) /\ UNCHANGED cont
                           ELSE /\ pc' = Entered("details")
                                /\ cont' = "details"
                                /\ UNCHANGED outcome
                        /\ UNCHANGED <<page_number, frames, n401>>
    /\ http_session' = "open"
    /\ response' = NoResponse
    /\ UNCHANGED <<session_id, op, portal, soup>>

\* get_room_details (lines 190-219), alone or for the room at idx of
\* get_room_temperatures' loop (lines 185-188).
FetchRoomDetails ==
    /\ pc = "details"
    /\ LET all == op.name = "get_room_temperatures"
           room_id == IF all THEN rooms[idx].k ELSE op.room
       IN \E st \in DataStatuses :
        /\ log' = Append(log, Get("settings", 0, room_id, session_id, st))
        /\ CASE st = "401" ->
                /\ Reauthenticate("details")
                /\ UNCHANGED <<rooms, idx, outcome>>
             [] st \in {"500", "timeout", "clienterror"} ->
                /\ Raise("ConnectionError", FALSE)
                /\ UNCHANGED <<cont, rooms, idx, n401>>
             [] OTHER ->
                LET details == RoomDetails(portal.settings) IN
                IF ~all
                THEN /\ Finish("return", details)
                     /\ UNCHANGED <<cont, rooms, idx, n401>>
                ELSE LET updated == [rooms EXCEPT ![idx].v = details @@ @] IN
                     /\ rooms' = updated
                     /\ IF idx = Len(rooms)
                        THEN Finish("return", updated) /\ UNCHANGED idx
                        ELSE /\ idx' = idx + 1
                             /\ pc' = Entered("details")
                             /\ UNCHANGED outcome
                     /\ UNCHANGED <<cont, n401>>
    /\ http_session' = "open"
    /\ response' = NoResponse
    /\ UNCHANGED <<session_id, op, portal, page_number, frames, listed, soup>>

\* get_outside_temperature, lines 221-231.
FetchControls ==
    /\ pc = "controls"
    /\ \E st \in DataStatuses :
        /\ log' = Append(log, Get("controls", 0, <<>>, session_id, st))
        /\ CASE st = "401" ->
                Reauthenticate("controls") /\ UNCHANGED outcome
             [] st \in {"500", "timeout", "clienterror"} ->
                Raise("ConnectionError", FALSE) /\ UNCHANGED <<cont, n401>>
             [] OTHER ->
                /\ Finish("return", OutsideTemperature(portal.controls))
                /\ UNCHANGED <<cont, n401>>
    /\ http_session' = "open"
    /\ response' = NoResponse
    /\ UNCHANGED <<session_id, op, portal, page_number, frames, listed, rooms, idx, soup>>

\* set_room_target_temperature, lines 291-355: GET the settings page and
\* decide what to do.
FetchSettings ==
    /\ pc = "settings"
    /\ \E st \in DataStatuses :
        /\ log' = Append(log, Get("settings", 0, op.room, session_id, st))
        /\ CASE st = "401" ->
                Reauthenticate("settings") /\ UNCHANGED <<soup, outcome>>
             [] st \in {"500", "timeout", "clienterror"} ->
                Raise("ConnectionError", FALSE) /\ UNCHANGED <<cont, n401, soup>>
             [] OTHER ->
                LET plan == SetTemperaturePlan(portal.settings, op.target) IN
                /\ soup' = portal.settings
                /\ CASE plan.kind = "post" ->
                        pc' = "settemp" /\ UNCHANGED <<cont, n401, outcome>>
                     [] plan.kind = "return" ->
                        Finish("return", None) /\ UNCHANGED <<cont, n401>>
                     [] OTHER ->
                        Raise(plan.kind, FALSE) /\ UNCHANGED <<cont, n401>>
    /\ http_session' = "open"
    /\ response' = NoResponse
    /\ UNCHANGED <<session_id, op, portal, page_number, frames, listed, rooms, idx>>

\* set_room_target_temperature, lines 357-366: the POST to /settemperature.
PostSetTemperature ==
    /\ pc = "settemp"
    /\ \E st \in DataStatuses :
        /\ log' = Append(log, Exchange("POST", "settemperature", 0, op.room,
                                       SetTemperaturePlan(soup, op.target).value,
                                       session_id, st, None))
        /\ CASE st = "401" ->
                Reauthenticate("settemp") /\ UNCHANGED outcome
             [] st \in {"500", "timeout", "clienterror"} ->
                Raise("ConnectionError", FALSE) /\ UNCHANGED <<cont, n401>>
             [] OTHER ->
                Finish("return", None) /\ UNCHANGED <<cont, n401>>
    /\ http_session' = "open"
    /\ response' = NoResponse
    /\ UNCHANGED <<session_id, op, portal, page_number, frames, listed, rooms, idx, soup>>

\* Control is back at the caller, which has taken the result or the
\* exception; of the call only the client's fields remain.
Return ==
    /\ pc = "done"
    /\ pc' = "idle"
    /\ cont' = "return"
    /\ op' = [name |-> "none", room |-> <<>>, target |-> 0]
    /\ portal' = NoPortal
    /\ page_number' = 0
    /\ frames' = <<>>
    /\ listed' = NoOutcome
    /\ rooms' = <<>>
    /\ idx' = 0
    /\ n401' = 0
    /\ log' = <<>>
    /\ response' = NoResponse
    /\ soup' = NoPage
    /\ outcome' = NoOutcome
    /\ UNCHANGED <<session_id, http_session>>

\* close, lines 275-279.
Close ==
    /\ pc = "idle"
    /\ http_session = "open"
    /\ http_session' = "none"
    /\ UNCHANGED <<session_id, pc, cont, op, portal, page_number, frames, listed,
                   rooms, idx, n401, log, response, soup, outcome>>

Next ==
    \/ CallAuthenticate
    \/ CallGetRoomTemperatures
    \/ CallGetRoomDetails
    \/ CallGetOutsideTemperature
    \/ CallSetRoomTargetTemperature
    \/ Authenticate
    \/ FetchRoomsPage
    \/ FetchRoomDetails
    \/ FetchControls
    \/ FetchSettings
    \/ PostSetTemperature
    \/ Return
    \/ Close

Spec == Init /\ [][Next]_vars

\* The client used for logging in only (the config flow).
NextAuthenticate == CallAuthenticate \/ Authenticate \/ Return

SpecAuthenticate == Init /\ [][NextAuthenticate]_vars

\* The client used for the periodic fetch of all rooms.
NextRooms ==
    \/ CallGetRoomTemperatures
    \/ Authenticate
    \/ FetchRoomsPage
    \/ FetchRoomDetails
    \/ Return

SpecRooms == Init /\ [][NextRooms]_vars

\* The client used for changing target temperatures.
NextSetpoint ==
    \/ CallSetRoomTargetTemperature
    \/ Authenticate
    \/ FetchSettings
    \/ PostSetTemperature
    \/ Return

SpecSetpoint == Init /\ [][NextSetpoint]_vars

\* The client used for reading one room's settings.
NextDetails ==
    \/ CallGetRoomDetails
    \/ Authenticate
    \/ FetchRoomDetails
    \/ Return

SpecDetails == Init /\ [][NextDetails]_vars

\* The coordinator's periodic refresh, coordinator.py lines 37-50.

\* A variant of the refresh that lets every exception leave as it is.
RefreshRaisedAsIs(kind) == kind

\* Lines 49-50: the api's ConnectionError leaves the refresh as UpdateFailed;
\* any other exception is not caught.
RefreshRaised(kind) == IF kind = "ConnectionError" THEN "UpdateFailed" ELSE kind

\* Lines 43-47: the entry added for the outside temperature.
OutsideEntry(outside_temperature) ==
    ("name" :> <<"Outside">>)
    @@ ("temperature" :> outside_temperature)
    @@ ("humidity" :> None)

\* Lines 42-48: the room map, with the outside entry when a temperature came.
UpdateData(temperatures, outside_temperature) ==
    IF outside_temperature # None
    THEN DictSet(temperatures, <<"outside_temperature">>,
                 OutsideEntry(outside_temperature))
    ELSE temperatures

\* Line 41: get_room_temperatures has returned the map (held in rooms) and
\* get_outside_temperature is entered, its locals fresh.
AsyncUpdateDataOutside ==
    /\ pc = "done"
    /\ op.name = "get_room_temperatures"
    /\ outcome.kind = "return"
    /\ \E cp \in ControlsPages :
        portal' = Portal(<<>>, NoPage, cp)
    /\ op' = [name |-> "_async_update_data", room |-> <<>>, target |-> 0]
    /\ pc' = Entered("controls")
    /\ cont' = "controls"
    /\ page_number' = 0
    /\ frames' = <<>>
    /\ listed' = NoOutcome
    /\ idx' = 0
    /\ n401' = 0
    /\ log' = <<>>
    /\ outcome' = [kind |-> "running", value |-> None]
    /\ UNCHANGED <<session_id, http_session, rooms, response, soup>>

\* Lines 42-50: the refresh ends, with the map or with the exception that
\* one of the two calls raised.
AsyncUpdateDataEnd ==
    /\ pc = "done"
    /\ \/ op.name = "_async_update_data"
       \/ op.name = "get_room_temperatures" /\ outcome.kind # "return"
    /\ pc' = "updated"
    /\ op' = [op EXCEPT !.name = "_async_update_data"]
    /\ outcome' = IF outcome.kind = "return"
                  THEN [kind |-> "return", value |-> UpdateData(rooms, outcome.value)]
                  ELSE [kind |-> RefreshRaised(outcome.kind), value |-> None]
    /\ UNCHANGED <<session_id, http_session, cont, portal, page_number, frames,
                   listed, rooms, idx, n401, log, response, soup>>

\* Control is back at the update coordinator's base class; of the refresh
\* only the client's fields remain.
AsyncUpdateDataReturn ==
    /\ pc = "updated"
    /\ pc' = "idle"
    /\ cont' = "return"
    /\ op' = [name |-> "none", room |-> <<>>, target |-> 0]
    /\ portal' = NoPortal
    /\ page_number' = 0
    /\ frames' = <<>>
    /\ listed' = NoOutcome
    /\ rooms' = <<>>
    /\ idx' = 0
    /\ n401' = 0
    /\ log' = <<>>
    /\ response' = NoResponse
    /\ soup' = NoPage
    /\ outcome' = NoOutcome
    /\ UNCHANGED <<session_id, http_session>>

NextUpdate ==
    \/ CallGetRoomTemperatures
    \/ Authenticate
    \/ FetchRoomsPage
    \/ FetchRoomDetails
    \/ AsyncUpdateDataOutside
    \/ FetchControls
    \/ AsyncUpdateDataEnd
    \/ AsyncUpdateDataReturn

SpecUpdate == Init /\ [][NextUpdate]_vars

\* The client used for reading the outside temperature until it is disposed
\* of (the coordinator's async_shutdown calls close).
NextOutside ==
    \/ CallGetOutsideTemperature
    \/ Authenticate
    \/ FetchControls
    \/ Return
    \/ Close

SpecOutside == Init /\ [][NextOutside]_vars

-----------------------------------------------------------------------------
(* Properties of authenticate *)

\* t is the token the Set-Cookie header h names: the characters after the
\* first "PHPSESSID=" up to the next ";" (or the end), without the blanks
\* around them, and not empty.
IsHeaderToken(h, t) ==
    \E i \in 1..Len(h) :
        /\ h[i] = PHPSESSID
        /\ \A x \in 1..(i - 1) : h[x] # PHPSESSID
        /\ \E j \in i..Len(h) :
            /\ j = Len(h) \/ h[j + 1] = ";"
            /\ \A x \in (i + 1)..j : h[x] # ";"
            /\ \E a \in (i + 1)..j, b \in (i + 1)..j :
                /\ a <= b
                /\ h[a] # " " /\ h[b] # " "
                /\ \A x \in ((i + 1)..(a - 1)) \cup ((b + 1)..j) : h[x] = " "
                /\ t = SubSeq(h, a, b)

HasHeaderToken(h) == \E a \in 1..Len(h), b \in 1..Len(h) : IsHeaderToken(h, SubSeq(h, a, b))

\* The cookie store holds a PHPSESSID cookie.
HasStoreCookie(jar) == \E i \in 1..Len(jar) : jar[i].key = "PHPSESSID"

\* The first PHPSESSID cookie of the store.
StoreCookie(jar) ==
    jar[CHOOSE i \in 1..Len(jar) :
            jar[i].key = "PHPSESSID" /\ \A j \in 1..(i - 1) : jar[j].key # "PHPSESSID"]

AuthenticateEnded == pc = "done" /\ op.name = "authenticate"

Returned(v) == outcome = [kind |-> "return", value |-> v]

\* The parts of C2 that hold as stated: the failures by status, the token of
\* the header, and the stored token on success.
AuthenticateByStatus ==
    AuthenticateEnded =>
        /\ response.status = "401" => outcome.kind = "AuthenticationError"
        /\ response.status \in {"500", "timeout", "clienterror"} =>
                outcome.kind = "ConnectionError"
        /\ response.status = "200" =>
                \A a \in 1..Len(response.set_cookie), b \in 1..Len(response.set_cookie) :
                    IsHeaderToken(response.set_cookie, SubSeq(response.set_cookie, a, b))
                        => Returned(SubSeq(response.set_cookie, a, b))
        /\ outcome.kind = "return" => session_id = outcome.value

\* C2 as stated: authenticate's outcome is a function of the login response:
\* 401 raises AuthenticationError; another non-200 status, a timeout or a
\* transport failure raises ConnectionError; 200 with a token in the
\* Set-Cookie header returns that token; 200 without a header token but with
\* a PHPSESSID cookie in the cookie store returns the store's token; 200 with
\* neither raises AuthenticationError; on success the stored token is the
\* returned one.
C2_AsStated ==
    /\ AuthenticateByStatus
    /\ (AuthenticateEnded /\ response.status = "200"
            /\ ~HasHeaderToken(response.set_cookie)) =>
        IF HasStoreCookie(response.jar)
        THEN Returned(StoreCookie(response.jar).value)
        ELSE outcome.kind = "AuthenticationError"

\* C2, amended: as stated, except that the store's token counts only when
\* the first PHPSESSID cookie of the store has a non-empty value; when that
\* value is empty, authenticate raises AuthenticationError as it does when the
\* store has no such cookie.
C2_Authenticate ==
    /\ AuthenticateByStatus
    /\ (AuthenticateEnded /\ response.status = "200"
            /\ ~HasHeaderToken(response.set_cookie)) =>
        IF HasStoreCookie(response.jar) /\ StoreCookie(response.jar).value # <<>>
        THEN Returned(StoreCookie(response.jar).value)
        ELSE outcome.kind = "AuthenticationError"

\* C2's case: a login answered 200 whose header names PHPSESSID with an empty
\* value, so that the token comes from the cookie store.
C2_Witness ==
    /\ AuthenticateEnded
    /\ response.status = "200"
    /\ Find(response.set_cookie, PHPSESSID, 1) # 0
    /\ ~HasHeaderToken(response.set_cookie)
    /\ Returned(<<"c">>)
    /\ session_id = <<"c">>

-----------------------------------------------------------------------------
(* Properties of the room listing *)

\* The exchanges made inside _fetch_and_parse_rooms: from the first GET of a
\* listing page up to the first GET of a settings page.
ListingLog ==
    {i \in 1..Len(log) :
        /\ \E j \in 1..i : log[j].path = "thermostats"
        /\ \A j \in 1..i : log[j].path # "settings"}

ListingEnded == op.name = "get_room_temperatures" /\ listed.kind # "none"

PageGets == {i \in ListingLog : log[i].path = "thermostats"}

\* The pages whose GET was answered 200, in the order of the requests.
RECURSIVE PagesFetched(_)
PagesFetched(l) ==
    IF l = <<>> THEN <<>>
    ELSE (IF Head(l).path = "thermostats" /\ Head(l).status = "200"
          THEN <<Head(l).page>> ELSE <<>>) \o PagesFetched(Tail(l))

\* The pages a listing that meets no failure fetches, from page n on.
RECURSIVE PagesDue(_, _)
PagesDue(pages, n) ==
    <<n>> \o (IF /\ ParseRooms(PageAt(pages, n).items, <<>>).ok
                 /\ PageAt(pages, n).next = "visible"
              THEN PagesDue(pages, n + 1) ELSE <<>>)

\* Exactly one GET of a listing page was answered 401, every other exchange
\* of the listing was answered 200, and the login gave a token.
OneExpiry(i) ==
    /\ ListingEnded
    /\ i \in PageGets /\ log[i].status = "401"
    /\ \A j \in ListingLog \ {i} : log[j].status = "200"
    /\ \A j \in ListingLog : log[j].path = "login" => log[j].got # None

\* C1: when exactly one GET of a listing page is answered 401 and every
\* other response is 200, there is exactly one login, directly after the 401,
\* followed directly by one more GET of the same page carrying the token that
\* login returned; that page is requested twice and no other page more than
\* once; the pages answered 200 are those of the run without the 401, in
\* order; and the listing ends as that run ends.
C1_SingleExpiry ==
    \A i \in 1..Len(log) :
        OneExpiry(i) =>
            /\ Cardinality({j \in ListingLog : log[j].path = "login"}) = 1
            /\ i + 2 <= Len(log)
            /\ log[i + 1].path = "login"
            /\ log[i + 2].path = "thermostats"
            /\ log[i + 2].page = log[i].page
            /\ log[i + 2].cookie = log[i + 1].got
            /\ \A p \in 1..(MaxPages + 1) :
                Cardinality({j \in PageGets : log[j].page = p})
                    <= (IF p = log[i].page THEN 2 ELSE 1)
            /\ PagesFetched(log) = PagesDue(portal.pages, 1)
            /\ listed = FetchAndParseRooms(portal.pages, 1)

\* C1's case: the token expires at page 2 of a three-page listing, the login
\* gives another token than the one held, and the listing returns rooms.
C1_Witness ==
    \E i \in 1..Len(log) :
        /\ OneExpiry(i)
        /\ log[i].page = 2
        /\ Len(portal.pages) = 3
        /\ PagesFetched(log) = <<1, 2, 3>>
        /\ log[i + 2].cookie # log[i].cookie
        /\ listed.kind = "return"
        /\ Keys(listed.value) = {<<"r1">>, <<"r2">>, <<"r3">>}

\* Every exchange of the listing was answered 200.
NoRequestFailed == \A i \in ListingLog : log[i].status = "200"

\* The room blocks of all pages.
AllRooms(pages) ==
    UNION { {pages[n].items[x] : x \in 1..Len(pages[n].items)} : n \in 1..Len(pages) }

\* The block names its room: it has the name field and the details link.
Identified(room) == room.thermoInput.present /\ room.link.present

HasTemperature(room) == \E x \in 1..Len(room.data) : EndsWith(room.data[x], DegC)

HasHumidity(room) == \E x \in 1..Len(room.data) : EndsWith(room.data[x], RhPct)

\* The identifier the block's link ends with.
IdentifierOf(room) ==
    LET href == room.link.href IN
    IF \E x \in 1..Len(href) : href[x] = "/"
    THEN SubSeq(href, (CHOOSE x \in 1..Len(href) :
                        href[x] = "/" /\ \A y \in (x + 1)..Len(href) : href[y] # "/") + 1,
                Len(href))
    ELSE href

\* C3 as stated: for a listing of k pages whose pages 1..k-1 show a visible
\* next control and whose page k does not, and no request failing, the
\* listing GETs exactly the pages 1, 2, ..., k in this order and returns a map
\* whose keys are the room identifiers of all k pages.
C3_AsStated ==
    (/\ ListingEnded
     /\ NoRequestFailed
     /\ Last(portal.pages).next # "visible"
     /\ \A room \in AllRooms(portal.pages) : Identified(room) /\ HasTemperature(room))
    => /\ PagesFetched(log) = [n \in 1..Len(portal.pages) |-> n]
       /\ Cardinality(PageGets) = Len(portal.pages)
       /\ listed.kind = "return"
       /\ Keys(listed.value) = {IdentifierOf(room) : room \in AllRooms(portal.pages)}

\* What holds of C3: the same, for listings whose rooms all report a humidity.
C3_WhenHumidityReported ==
    (/\ ListingEnded
     /\ NoRequestFailed
     /\ Last(portal.pages).next # "visible"
     /\ \A room \in AllRooms(portal.pages) :
            Identified(room) /\ HasTemperature(room) /\ HasHumidity(room))
    => /\ PagesFetched(log) = [n \in 1..Len(portal.pages) |-> n]
       /\ Cardinality(PageGets) = Len(portal.pages)
       /\ listed.kind = "return"
       /\ Keys(listed.value) = {IdentifierOf(room) : room \in AllRooms(portal.pages)}

\* The last exchange was a login that failed with AuthenticationError: it was
\* answered 401, or 200 without a token.
LoginRejected ==
    /\ log # <<>>
    /\ Last(log).path = "login"
    /\ Last(log).status \in {"401", "200"}
    /\ Last(log).got = None

\* C4 as stated: whenever a login fails with AuthenticationError during a
\* public operation, the re-authentication after a 401 on a listing page
\* included, the operation raises AuthenticationError to its caller.
C4_AsStated ==
    (pc = "done" /\ LoginRejected) => outcome.kind = "AuthenticationError"

\* What holds of C4: the same, except for a login made inside
\* _fetch_and_parse_rooms, whose failure leaves as ConnectionError.
C4_OutsideListing ==
    (pc = "done" /\ LoginRejected) =>
        outcome.kind = (IF Len(log) \in ListingLog THEN "ConnectionError"
                        ELSE "AuthenticationError")

\* C10 as stated: a listing whose pages hold a room with a temperature and no
\* humidity, every request answered 200 and every room block naming its room
\* and its temperature, returns a reading for every room, the one without
\* humidity included.
C10_AsStated ==
    (/\ ListingEnded
     /\ NoRequestFailed
     /\ Last(portal.pages).next # "visible"
     /\ \A room \in AllRooms(portal.pages) : Identified(room) /\ HasTemperature(room)
     /\ \E room \in AllRooms(portal.pages) : ~HasHumidity(room))
    => /\ listed.kind = "return"
       /\ \A room \in AllRooms(portal.pages) : IdentifierOf(room) \in Keys(listed.value)

-----------------------------------------------------------------------------
(* Properties of set_room_target_temperature *)

SetEnded == pc = "done" /\ op.name = "set_room_target_temperature"

\* The settings page was received.
PageFetched ==
    /\ op.name = "set_room_target_temperature"
    /\ \E i \in 1..Len(log) : log[i].path = "settings" /\ log[i].status = "200"

\* The POSTs to /settemperature.
Posts == {i \in 1..Len(log) : log[i].path = "settemperature"}

\* The page shows a current target temperature.
CurrentReadable(page) ==
    /\ page.myModeVal.present
    /\ ParseFloat(DropLast(page.myModeVal.text, 2)).ok

\* The current target temperature, in half degrees.
CurrentTarget(page) == ParseFloat(DropLast(page.myModeVal.text, 2)).halves

\* current - desired, in half degrees.
Delta == CurrentTarget(soup) - op.target

\* Rounding a difference given in half degrees to whole degrees.
Floor(h) == CHOOSE t \in -20..20 : 2 * t <= h /\ h < 2 * t + 2

TowardZero(h) ==
    CHOOSE t \in -20..20 :
        IF h >= 0 THEN 2 * t <= h /\ h < 2 * t + 2
        ELSE 2 * t >= h /\ h > 2 * t - 2

\* The script block names the button with identifier id as the current one.
ScriptNames(page, id) ==
    /\ page.script.present
    /\ \E i \in 1..Len(page.script.text) :
        /\ page.script.text[i] = SelOpen
        /\ \/ /\ i + 1 <= Len(page.script.text)
              /\ page.script.text[i + 1] = SelClose
              /\ id = ""
           \/ /\ i + 2 <= Len(page.script.text)
              /\ page.script.text[i + 1] \in Alnum
              /\ page.script.text[i + 2] = SelClose
              /\ id = page.script.text[i + 1]

\* Button number k (from 0) is the current one.
IsCurrentIndex(page, k) ==
    /\ k \in 0..(Len(page.buttons) - 1)
    /\ ScriptNames(page, page.buttons[k + 1].id)
    /\ \A j \in 1..k : page.buttons[j].id # page.buttons[k + 1].id

HasCurrentIndex(page) == \E k \in 0..(Len(page.buttons) - 1) : IsCurrentIndex(page, k)

CurrentIndex(page) == CHOOSE k \in 0..(Len(page.buttons) - 1) : IsCurrentIndex(page, k)

\* The handler is a setTemperature call with three parameters.
IsSetTemperatureCall(onclick) ==
    /\ onclick # <<>>
    /\ Head(onclick) = JsPrefix
    /\ Cardinality({i \in 1..Len(onclick) : onclick[i] = ","}) = 2

\* The value a POST made for button number k carries: the second parameter
\* of its handler.
SecondParameter(onclick) ==
    LET first == CHOOSE i \in 1..Len(onclick) :
                    onclick[i] = "," /\ \A j \in 1..(i - 1) : onclick[j] # ","
        second == CHOOSE i \in (first + 1)..Len(onclick) :
                    onclick[i] = "," /\ \A j \in (first + 1)..(i - 1) : onclick[j] # ","
    IN SubSeq(onclick, first + 1, second - 1)

\* The exchanges of a call that found the target reached, as C5 states them:
\* the GET of the settings page and nothing else.
C5_AsStated ==
    (SetEnded /\ PageFetched /\ CurrentReadable(soup) /\ Delta = 0) =>
        /\ outcome.kind = "return"
        /\ Len(log) = 1
        /\ log[1].method = "GET" /\ log[1].path = "settings"

\* C5, amended: when the desired target equals the current target read from
\* the settings page, the call returns without raising, makes no POST to
\* /settemperature and no request after the GET that brought the page; the
\* requests before it are a login when no token was held and, for each GET
\* answered 401, one login and the GET again.
C5_NoRequestAfterPage ==
    (SetEnded /\ PageFetched /\ CurrentReadable(soup) /\ Delta = 0) =>
        /\ outcome.kind = "return"
        /\ Posts = {}
        /\ Last(log).method = "GET" /\ Last(log).path = "settings"
        /\ Last(log).room = op.room /\ Last(log).status = "200"
        /\ \A i \in 1..(Len(log) - 1) :
            \/ /\ log[i].path = "settings" /\ log[i].status = "401"
               /\ log[i + 1].path = "login"
            \/ /\ log[i].path = "login" /\ log[i].status = "200"
               /\ i = 1 \/ (log[i - 1].path = "settings" /\ log[i - 1].status = "401")
               /\ log[i + 1].path = "settings"

\* C5's case: a client holding a token finds the target reached.
C5_Witness ==
    /\ SetEnded /\ PageFetched /\ CurrentReadable(soup) /\ Delta = 0
    /\ CurrentTarget(soup) = 42
    /\ Len(log) = 1
    /\ outcome.kind = "return"

\* C6's setting: current target 21.0, desired target 20.0, the current button
\* at index 5 of 10 buttons, the handler of button number k well formed, and
\* no request answered 401.
OneDegreeDown(k) ==
    /\ SetEnded /\ PageFetched /\ CurrentReadable(soup)
    /\ CurrentTarget(soup) = 42 /\ op.target = 40
    /\ Len(soup.buttons) = 10
    /\ IsCurrentIndex(soup, 5)
    /\ IsSetTemperatureCall(soup.buttons[k + 1].onclick)
    /\ \A i \in 1..Len(log) : log[i].status # "401"

\* The call makes exactly one POST to /settemperature, whose value is the
\* second parameter of the handler of button number k and whose id is the
\* room identifier of the call.
PostsOnceFor(k) ==
    /\ Cardinality(Posts) = 1
    /\ \A i \in Posts :
        /\ log[i].method = "POST"
        /\ log[i].value = SecondParameter(soup.buttons[k + 1].onclick)
        /\ log[i].room = op.room

\* C6 as stated: with current target 21.0, desired target 20.0 and the
\* current button at index 5 of 10 buttons, the button at index 6 is chosen
\* and exactly one POST is made, with that button's second parameter as value
\* and the room identifier of the call as id.
C6_AsStated == OneDegreeDown(6) => PostsOnceFor(6)

\* C6, amended: in that setting the button at index 4 is chosen
\* (5 - int(21.0 - 20.0)), and exactly one POST is made, with the second
\* parameter of the handler of button 4 as value and the room identifier of
\* the call as id.
C6_OneDegreeDown == OneDegreeDown(4) => PostsOnceFor(4)

\* C6's case, the POST answered 200.
C6_Witness ==
    /\ OneDegreeDown(4)
    /\ Last(log).path = "settemperature" /\ Last(log).status = "200"
    /\ Last(log).value = <<"v4">>
    /\ Last(log).room = <<"r1">>
    /\ outcome.kind = "return"

\* The call got as far as choosing a button: the page shows a current target
\* other than the desired one, names a current button, and the call has made
\* its POST or ended.
ChoiceMade ==
    /\ PageFetched /\ CurrentReadable(soup) /\ Delta # 0
    /\ HasCurrentIndex(soup)
    /\ \A i \in 1..Len(soup.buttons) : IsSetTemperatureCall(soup.buttons[i].onclick)
    /\ pc = "done" \/ Posts # {}
    /\ \A i \in 1..Len(log) : log[i].path = "settings" => log[i].status # "500"

\* The call chose button number k: it POSTs the value of k's handler, or makes
\* no POST when there is no button number k.
Chose(k) ==
    IF k \in 0..(Len(soup.buttons) - 1)
    THEN /\ Posts # {}
         /\ \A i \in Posts : log[i].value = SecondParameter(soup.buttons[k + 1].onclick)
    ELSE Posts = {}

\* C7 as stated: the index chosen is current_index - floor(delta), floor
\* rounding toward minus infinity.
C7_AsStated == ChoiceMade => Chose(CurrentIndex(soup) - Floor(Delta))

\* C7, amended: the index chosen is current_index - int(delta), where int
\* rounds toward zero; for a desired target above the current one by a
\* fractional number of degrees this is one more than the floor gives.
C7_TowardZero == ChoiceMade => Chose(CurrentIndex(soup) - TowardZero(Delta))

\* C7's case: the desired target is half a degree above the current one and
\* the call POSTs the value of the current button itself.
C7_Witness ==
    /\ ChoiceMade
    /\ Delta = -1
    /\ CurrentIndex(soup) = 5
    /\ Posts # {}
    /\ \A i \in Posts : log[i].value = <<"v5">>

\* Everything C8 lists holds of the page: the script block is there, it names
\* a current button, there are buttons, one of them has that identifier, the
\* new index is one of a button, and that button's handler is a
\* setTemperature call with three parameters.
ControlUsable(page, delta) ==
    /\ page.script.present /\ page.script.text # <<>>
    /\ \E id \in Alnum \cup {""} : ScriptNames(page, id)
    /\ page.buttons # <<>>
    /\ HasCurrentIndex(page)
    /\ LET k == CurrentIndex(page) - TowardZero(delta) IN
        /\ k \in 0..(Len(page.buttons) - 1)
        /\ IsSetTemperatureCall(page.buttons[k + 1].onclick)

\* C8: a POST to /settemperature is made only if the script block is present,
\* yields a current-button identifier, buttons exist, one has that identifier,
\* the new index is within 0..len(buttons)-1 and the target button's handler
\* is a setTemperature call with three parameters; when the page shows a
\* current target other than the desired one and any of these fails, the call
\* returns normally and has made no POST.
C8_PostOnlyWhenUsable ==
    /\ (op.name = "set_room_target_temperature" /\ (Posts # {} \/ pc = "settemp")) =>
            /\ CurrentReadable(soup) /\ Delta # 0
            /\ ControlUsable(soup, Delta)
    /\ (SetEnded /\ PageFetched /\ CurrentReadable(soup) /\ Delta # 0
            /\ ~ControlUsable(soup, Delta)) =>
            /\ outcome.kind = "return"
            /\ Posts = {}

\* C8's case: ten buttons, the last one current, and a desired target two
\* degrees above the current one: the new index is 11, no POST is made and the
\* call returns.
C8_Witness ==
    /\ SetEnded /\ PageFetched /\ CurrentReadable(soup)
    /\ Len(soup.buttons) = 10
    /\ HasCurrentIndex(soup)
    /\ CurrentIndex(soup) - TowardZero(Delta) = 11
    /\ Posts = {}
    /\ outcome.kind = "return"

\* C9 as stated: whatever the settings page received looks like, the call
\* returns without raising.
C9_AsStated ==
    (SetEnded /\ PageFetched /\ \A i \in 1..Len(log) : log[i].status = "200")
        => outcome.kind = "return"

\* What holds of C9: the same for the pages that show a current target.
C9_WhenTargetShown ==
    (SetEnded /\ PageFetched /\ CurrentReadable(soup)
        /\ \A i \in 1..Len(log) : log[i].status = "200")
        => outcome.kind = "return"

-----------------------------------------------------------------------------
(* Properties of a listing that fails *)

\* The block parses: it names its room and reports a temperature and a
\* humidity.
Parses(room) == Identified(room) /\ HasTemperature(room) /\ HasHumidity(room)

\* get_room_temperatures ended at the GET of listing page k, which was
\* answered by a status other than 200 and 401 or not at all, or by a page
\* with a block that does not parse.
PageFailed(k) ==
    /\ pc = "done"
    /\ op.name = "get_room_temperatures"
    /\ log # <<>>
    /\ Last(log).path = "thermostats"
    /\ Last(log).page = k
    /\ \/ Last(log).status \in {"500", "timeout", "clienterror"}
       \/ /\ Last(log).status = "200"
          /\ \E x \in 1..Len(PageAt(portal.pages, k).items) :
                ~Parses(PageAt(portal.pages, k).items[x])

\* C11: when the GET of listing page k is answered by a status other than 200
\* and 401, or page k does not parse, the listing and get_room_temperatures
\* raise ConnectionError and deliver no rooms, whatever pages 1..k-1 held.
C11_NoPartialListing ==
    \A k \in 1..(MaxPages + 1) :
        PageFailed(k) =>
            /\ listed = [kind |-> "ConnectionError", value |-> None]
            /\ outcome = [kind |-> "ConnectionError", value |-> None]

\* C11's case: page 1 gave rooms and page 2 holds a block that does not parse.
C11_Witness ==
    /\ PageFailed(2)
    /\ Last(log).status = "200"
    /\ Len(frames) = 1
    /\ frames[1] # <<>>
    /\ outcome.kind = "ConnectionError"

-----------------------------------------------------------------------------
(* Properties of get_room_details *)

DetailsEnded == pc = "done" /\ op.name = "get_room_details"

\* C12: for every set of markers in the settings page, the result of
\* get_room_details holds the flag of each marker present, with the value
\* true, and has no key for the flag of a marker that is absent.
C12_FlagsByMarker ==
    (DetailsEnded /\ outcome.kind = "return") =>
        \A m \in Markers :
            IF m \in portal.settings.markers
            THEN FlagOf(m) \in DOMAIN outcome.value /\ outcome.value[FlagOf(m)] = TRUE
            ELSE FlagOf(m) \notin DOMAIN outcome.value

\* C12's case: only the heating marker is present.
C12_Witness ==
    /\ DetailsEnded
    /\ outcome.kind = "return"
    /\ portal.settings.markers = {"heat"}
    /\ outcome.value["is_heating_on"] = TRUE
    /\ DOMAIN outcome.value \cap {FlagOf(m) : m \in Markers} = {"is_heating_on"}

-----------------------------------------------------------------------------
(* Properties of close *)

\* C13 as stated: once the client is closed it holds no session token, and
\* the next public fetch starts with a login.  (The session object is absent
\* only before the first request and after close.)
C13_AsStated ==
    http_session = "none" =>
        /\ Falsy(session_id)
        /\ pc # "idle" => pc = "login"

\* What holds of C13: a fetch entered after close sends the token the client
\* held before, and logs in only when it held none.
C13_TokenKept ==
    (http_session = "none" /\ pc # "idle") => (pc = "login" <=> Falsy(session_id))

-----------------------------------------------------------------------------
(* Properties of the coordinator's refresh *)

RefreshEnded == pc = "updated"

\* The call in progress when the refresh ended raised ConnectionError at its
\* last exchange: a request that timed out, met a transport failure or was
\* answered by an unexpected status, or a listing page that does not parse.
RefreshCallFailed ==
    /\ log # <<>>
    /\ \/ Last(log).status \in {"500", "timeout", "clienterror"}
       \/ /\ Last(log).path = "thermostats"
          /\ Last(log).status = "200"
          /\ \E x \in 1..Len(PageAt(portal.pages, Last(log).page).items) :
                ~Parses(PageAt(portal.pages, Last(log).page).items[x])

\* get_room_temperatures returned and every exchange of
\* get_outside_temperature went well, the controls page arriving last.
RefreshWentWell ==
    /\ log # <<>>
    /\ Last(log).path = "controls"
    /\ \A i \in 1..Len(log) :
        /\ log[i].status = "200"
        /\ log[i].path = "login" => log[i].got # None

\* The controls page shows an outside temperature.
OutsideFound == portal.controls.outsideTemp.present /\ portal.controls.outsideTemp.text # <<>>

\* C14: a refresh never ends in ConnectionError; it ends in UpdateFailed
\* whenever one of its two calls raised ConnectionError (timeout, transport
\* failure, unexpected status, parse failure); and when no error occurs it
\* returns the room map, with one more entry, "outside_temperature", exactly
\* when the outside temperature was found.
C14_Refresh ==
    RefreshEnded =>
        /\ outcome.kind # "ConnectionError"
        /\ RefreshCallFailed => outcome.kind = "UpdateFailed"
        /\ RefreshWentWell =>
            /\ outcome.kind = "return"
            /\ SubSeq(outcome.value, 1, Len(rooms)) = rooms
            /\ IF OutsideFound
               THEN /\ Len(outcome.value) = Len(rooms) + 1
                    /\ Last(outcome.value).k = <<"outside_temperature">>
                    /\ Last(outcome.value).v["humidity"] = None
               ELSE Len(outcome.value) = Len(rooms)

\* C14's cases: the controls page times out after the rooms were read ...
C14_Witness ==
    /\ RefreshEnded
    /\ rooms # <<>>
    /\ Last(log).path = "controls"
    /\ Last(log).status = "timeout"
    /\ outcome.kind = "UpdateFailed"

\* ... and a refresh that meets no error, with and without the outside
\* temperature.
C14_WitnessOutside ==
    /\ RefreshEnded /\ RefreshWentWell /\ OutsideFound
    /\ Len(rooms) = 2
    /\ Keys(outcome.value) = Keys(rooms) \cup {<<"outside_temperature">>}

C14_WitnessNoOutside ==
    /\ RefreshEnded /\ RefreshWentWell /\ ~OutsideFound
    /\ Len(rooms) = 2
    /\ outcome.value = rooms

-----------------------------------------------------------------------------
(* Properties of the merge of listing pages *)

\* The blocks of page n that carry the identifier id.
BlocksOf(pages, n, id) ==
    {x \in 1..Len(pages[n].items) : IdentifierOf(pages[n].items[x]) = id}

\* The entries of the directory d under the identifier id.
EntriesOf(d, id) == {n \in 1..Len(d) : d[n].k = id}

\* C15: when a room identifier appears on the listing pages i < j, and on no
\* page after j, the directory the listing returns holds exactly one entry
\* for it, and that entry is the reading of page j.
C15_LaterPageWins ==
    (ListingEnded /\ listed.kind = "return") =>
        \A i \in 1..Len(portal.pages), j \in 1..Len(portal.pages) :
            \A x \in 1..Len(portal.pages[i].items) :
                LET id == IdentifierOf(portal.pages[i].items[x]) IN
                (/\ i < j
                 /\ BlocksOf(portal.pages, j, id) # {}
                 /\ \A k \in (j + 1)..Len(portal.pages) : BlocksOf(portal.pages, k, id) = {})
                => /\ Cardinality(EntriesOf(listed.value, id)) = 1
                   /\ \A n \in EntriesOf(listed.value, id) :
                        \E y \in BlocksOf(portal.pages, j, id) :
                            /\ \A z \in BlocksOf(portal.pages, j, id) : z <= y
                            /\ listed.value[n].v = ParseRoom(portal.pages[j].items[y]).v

\* C15's case: page 1 reports 21.5 degrees for room r1, page 2 reports 19.0,
\* and the directory holds 19.0.
C15_Witness ==
    /\ ListingEnded
    /\ listed.kind = "return"
    /\ Len(portal.pages) = 2
    /\ portal.pages[1].items = <<Living>>
    /\ portal.pages[2].items = <<LivingLater>>
    /\ Len(listed.value) = 1
    /\ listed.value[1].k = <<"r1">>
    /\ listed.value[1].v["temperature"] = <<"19.0">>

-----------------------------------------------------------------------------
(* Properties of the 401 retry of the request helpers *)

DataRequest(i) == log[i].path # "login"

Logins == {i \in 1..Len(log) : log[i].path = "login"}

\* The data requests answered 401.
Expiries == {i \in 1..Len(log) : DataRequest(i) /\ log[i].status = "401"}

\* Exchange j makes the request of exchange i again.
SameRequest(i, j) ==
    /\ log[j].method = log[i].method
    /\ log[j].path = log[i].path
    /\ log[j].room = log[i].room
    /\ log[j].value = log[i].value

\* C16: in set_room_target_temperature, whose GET goes through _get_request
\* and whose POST through _post_request, every 401 answer to a data request
\* is followed by one login and, when that login gives a token, by the same
\* request once more with the new token, however many 401 answers came
\* before; the logins are those after a 401 answer, and the one at the start
\* of a call that held no token; and the call has ended only if a data request
\* got an answer other than 401 or a login failed.
C16_RetryUnbounded ==
    op.name = "set_room_target_temperature" =>
        /\ \A i \in Expiries :
            /\ IF i = Len(log) THEN pc = "relogin" ELSE log[i + 1].path = "login"
            /\ (i + 1 <= Len(log) /\ log[i + 1].got # None) =>
                IF i + 1 = Len(log)
                THEN pc = (IF log[i].path = "settemperature" THEN "settemp" ELSE "settings")
                ELSE SameRequest(i, i + 2) /\ log[i + 2].cookie = log[i + 1].got
        /\ \A j \in Logins : j = 1 \/ (j - 1) \in Expiries
        /\ pc = "done" =>
            /\ Cardinality(Logins) = Cardinality(Expiries)
                    + (IF log # <<>> /\ log[1].path = "login" THEN 1 ELSE 0)
            /\ \/ \E i \in 1..Len(log) : DataRequest(i) /\ log[i].status # "401"
               \/ \E j \in Logins : log[j].got = None

\* C16's case: the GET is answered 401 twice in a row and the client, having
\* logged in twice, is about to make the request a third time.
C16_Witness ==
    /\ op.name = "set_room_target_temperature"
    /\ pc = "settings"
    /\ Len(log) = 4
    /\ Expiries = {1, 3}
    /\ Logins = {2, 4}
    /\ log[4].got # None

\* C16's case for _post_request: the POST is answered 401 twice in a row.
C16_WitnessPost ==
    /\ op.name = "set_room_target_temperature"
    /\ pc = "settemp"
    /\ Cardinality({i \in Expiries : log[i].path = "settemperature"}) = 2
    /\ Last(log).path = "login"

-----------------------------------------------------------------------------
(* Properties of the stored token across logins *)

\* This step is a login: one more exchange, with /login.
LoginStep == Len(log') = Len(log) + 1 /\ log'[Len(log')].path = "login"

\* The login of this step failed.
LoginFailed == log'[Len(log')].got = None

\* C17 as stated: a login that fails on a status other than 200, on a
\* timeout or on a transport error leaves the stored token as it was; one
\* that fails on a 200 answer leaves it None; one that succeeds leaves the
\* token it returns.
C17_AsStated ==
    [][LoginStep =>
        IF ~LoginFailed THEN session_id' = log'[Len(log')].got
        ELSE IF log'[Len(log')].status = "200" THEN session_id' = None
        ELSE session_id' = session_id]_vars

\* C17, amended: as stated, except that a login failing on a 200 answer
\* leaves None or the empty string, the latter when the header or the cookie
\* store named an empty token.
C17_TokenAfterLogin ==
    [][LoginStep =>
        IF ~LoginFailed THEN session_id' = log'[Len(log')].got
        ELSE IF log'[Len(log')].status = "200" THEN session_id' \in {None, <<>>}
        ELSE session_id' = session_id]_vars

\* C17's case: a client holding a token logs in again, the login fails on an
\* unexpected status, and the token is still held.
C17_Witness ==
    /\ AuthenticateEnded
    /\ response.status = "500"
    /\ outcome.kind = "ConnectionError"
    /\ ~Falsy(session_id)

\* A login that failed on a 200 answer and left the empty string.
C17_WitnessEmpty ==
    /\ AuthenticateEnded
    /\ response.status = "200"
    /\ outcome.kind = "AuthenticationError"
    /\ session_id = <<>>

\* What the last sentence of C17 comes to: the stored token is None, the
\* empty string, or a token a login returned, never anything else.
C17_TokenOrNone ==
    AuthenticateEnded =>
        IF outcome.kind = "return" THEN session_id = outcome.value /\ ~Falsy(session_id)
        ELSE response.status = "200" => Falsy(session_id)

=============================================================================
